---- MODULE Spec2Model ----
(***************************************************************************)
(* Verification model of the client-side performance layer:                *)
(*   web/components/shared/performance/PerformanceMonitor.tsx              *)
(*   web/hooks/useOptimizedState.tsx                                       *)
(*   web/components/shared/OptimizedImage.tsx                              *)
(*                                                                         *)
(* Conventions.                                                            *)
(*  - A metrics object (PerformanceMetrics, or a Partial of it) is a       *)
(*    function whose DOMAIN is the set of fields that are present; an      *)
(*    unset field is absent from the domain, as in the JavaScript object.  *)
(*  - Times are milliseconds.  Layout-shift values and the                 *)
(*    cumulativeLayoutShift field are in thousandths (0.25 is 250).        *)
(***************************************************************************)
EXTENDS Integers, Sequences, FiniteSets, TLC

VARIABLES
    metrics,        \* PerformanceMonitor: useState<PerformanceMetrics>({})
    shownScore,     \* PerformanceMonitor: the rendered calculatePerformanceScore()
    monPhase,       \* PerformanceMonitor: "init" (not mounted yet), "mounted", "unmounted"
    props,          \* PerformanceMonitor: the props of the last render
    runs,           \* PerformanceMonitor: one record per run of the effect of
                    \* lines 28-172: its closure (props, clsValue), its observers,
                    \* its load listener and its setTimeout
    observerRef,    \* PerformanceMonitor: observerRef.current, as the number of the
                    \* effect run whose fcpObserver it holds (0 is null)
    updateQueue,    \* PerformanceMonitor: setMetrics updaters not yet applied by a render
    readyState,     \* document.readyState
    supported,      \* the entry types PerformanceObserver.observe accepts
    nEvents,        \* the number of entry lists delivered by the browser
    lastEvt,        \* the step taken last and the entry list it delivered
    emittedLast,    \* the updateMetrics calls made by the last step, in order
    notifiedLast,   \* the onMetricsUpdate calls made by the last step, in order
    state,          \* useOptimizedState: the rendered value of useState(initialState)
    stateQueue,     \* useOptimizedState: setState calls not yet applied by a render
    debouncedState, \* useOptimizedState: useState(initialState), the debounced value
    timeoutRef,     \* useOptimizedState: timeoutRef.current (0 is undefined)
    timers,         \* useOptimizedState: the pending setTimeout callbacks
    now,            \* the clock, in ms
    optMounted,     \* useOptimizedState: the component is mounted
    optLast,        \* useOptimizedState: the step taken last
    lastUpdateAt,   \* useOptimizedState: the time of the last setOptimizedState call
    nUpdates,       \* useOptimizedState: the number of setOptimizedState calls
    writes,         \* useOptimizedState: setDebouncedState calls since the
                    \* first update of the current burst
    batchState,         \* useBatchedState: the rendered value of useState(initialState)
    batchQueue,         \* useBatchedState: setState updaters not yet applied by a render
    pendingUpdatesRef,  \* useBatchedState: pendingUpdatesRef.current
    batchTimeoutRef,    \* useBatchedState: batchTimeoutRef.current (0 is undefined)
    batchTimers,        \* useBatchedState: the pending setTimeout(.., 0) callbacks
    batMounted,         \* useBatchedState: the component is mounted
    batLast,            \* useBatchedState: the step taken last
    submitted,          \* useBatchedState: all partial updates submitted, merged in order
    nBatched,           \* useBatchedState: the number of batchedSetState calls
    virtPhase,      \* useVirtualizedList: "init" (not mounted yet) or "mounted"
    virtProps,      \* useVirtualizedList: the arguments of the last render
    scrollTop,      \* useVirtualizedList: useState(0)
    virtView,       \* useVirtualizedList: the value returned by the last render
    imgPhase,       \* ProgressiveImage / OptimizedImage: "init", "mounted", "unmounted"
    imgProps,       \* the props of the last render (src, fallbackSrc,
                    \* enableLazyLoad, lazyLoadThreshold)
    isLoading,      \* OptimizedImage: useState(true)
    hasError,       \* OptimizedImage: useState(false)
    currentSrc,     \* OptimizedImage: useState(src)
    isVisible,      \* useLazyLoad: useState(false)
    hasLoaded,      \* useLazyLoad: useState(false)
    elt,            \* the <Image> element: the src it was rendered with ("none"
                    \* when it is not rendered) and the status of that request
    isHighQualityLoaded,  \* ProgressiveImage: useState(false)
    imgCalls,       \* the callbacks (onError, onLoadComplete) the last step called
    switches,       \* the switches to fallbackSrc since src was last set
    nIntersections, \* the number of IntersectionObserver callbacks
    nSrcChanges,    \* the number of changes of the src prop
    imgLast         \* the step taken last and the entries it delivered

monVars == <<metrics, shownScore, monPhase, props, runs, observerRef,
             updateQueue, readyState, supported, nEvents, lastEvt,
             emittedLast, notifiedLast>>
optVars == <<state, stateQueue, debouncedState, timeoutRef, timers, now,
             optMounted, optLast, lastUpdateAt, nUpdates, writes>>
batVars == <<batchState, batchQueue, pendingUpdatesRef, batchTimeoutRef,
             batchTimers, batMounted, batLast, submitted, nBatched>>
virtVars == <<virtPhase, virtProps, scrollTop, virtView>>
imgVars == <<imgPhase, imgProps, isLoading, hasError, currentSrc, isVisible,
             hasLoaded, elt, isHighQualityLoaded, imgCalls, switches,
             nIntersections, nSrcChanges, imgLast>>
uiVars == <<virtVars, imgVars>>
vars == <<monVars, optVars, batVars, uiVars>>

----------------------------------------------------------------------------
(* Thresholds and penalties of calculatePerformanceScore.                  *)
FcpPoor == 1800
FcpNeedsImprovement == 1000
LcpPoor == 4000
LcpNeedsImprovement == 2500
FidPoor == 300
FidNeedsImprovement == 100
ClsPoor == 250
ClsNeedsImprovement == 100

Max(a, b) == IF a >= b THEN a ELSE b

MergeReplace(prev, newMetrics) == newMetrics

(* {...prev, ...newMetrics}                                                 *)
Merge(prev, newMetrics) ==
    [f \in (DOMAIN prev) \cup (DOMAIN newMetrics) |->
        IF f \in DOMAIN newMetrics THEN newMetrics[f] ELSE prev[f]]

EmptyMetrics == [f \in {} |-> 0]

(* JavaScript truthiness of metrics.<f> for a numeric field: present and   *)
(* not 0.                                                                  *)
Truthy(m, f) == f \in DOMAIN m /\ m[f] # 0

(* One "if (m.f && m.f > poor) score -= p; else if (m.f && m.f > ni)        *)
(* score -= q;" statement.                                                  *)
DeductLowerTierFirst(score, m, f, poor, poorPenalty, ni, niPenalty) ==
    IF Truthy(m, f) /\ m[f] > ni THEN score - niPenalty
    ELSE IF Truthy(m, f) /\ m[f] > poor THEN score - poorPenalty
    ELSE score

DeductSwapped(score, m, f, poor, poorPenalty, ni, niPenalty) ==
    IF Truthy(m, f) /\ m[f] > poor THEN score - niPenalty
    ELSE IF Truthy(m, f) /\ m[f] > ni THEN score - poorPenalty
    ELSE score

Deduct(score, m, f, poor, poorPenalty, ni, niPenalty) ==
    IF Truthy(m, f) /\ m[f] > poor THEN score - poorPenalty
    ELSE IF Truthy(m, f) /\ m[f] > ni THEN score - niPenalty
    ELSE score

calculatePerformanceScoreAdds(m) ==
    LET s0 == 100
        s1 == Deduct(s0, m, "firstContentfulPaint", FcpPoor, -15, FcpNeedsImprovement, -5)
        s2 == Deduct(s1, m, "largestContentfulPaint", LcpPoor, 20, LcpNeedsImprovement, 10)
        s3 == Deduct(s2, m, "firstInputDelay", FidPoor, 15, FidNeedsImprovement, 5)
        s4 == Deduct(s3, m, "cumulativeLayoutShift", ClsPoor, 20, ClsNeedsImprovement, 10)
    IN  Max(0, s4)

calculatePerformanceScore(m) ==
    LET s0 == 100
        s1 == Deduct(s0, m, "firstContentfulPaint", FcpPoor, 15, FcpNeedsImprovement, 5)
        s2 == Deduct(s1, m, "largestContentfulPaint", LcpPoor, 20, LcpNeedsImprovement, 10)
        s3 == Deduct(s2, m, "firstInputDelay", FidPoor, 15, FidNeedsImprovement, 5)
        s4 == Deduct(s3, m, "cumulativeLayoutShift", ClsPoor, 20, ClsNeedsImprovement, 10)
    IN  Max(0, s4)

----------------------------------------------------------------------------
(* PerformanceMonitor: the effect of lines 28-172.                         *)

MaxRuns == 2        \* runs of the effect in one behaviour
MaxEvents == 2      \* entry lists delivered in one behaviour

LargeResourceBytes == 100000
TopResources == 10

(* The entry types in the order of the observe calls of lines 89-92.       *)
ObserveOrder == <<"paint", "largest-contentful-paint", "first-input", "layout-shift">>
EntryTypes == {ObserveOrder[i] : i \in 1..4}

DefaultProps ==
    [onMetricsUpdate |-> 1, enableConsoleLogging |-> FALSE,
     enableResourceTiming |-> FALSE]

PropsValues ==
    [onMetricsUpdate : {1, 2}, enableConsoleLogging : BOOLEAN,
     enableResourceTiming : BOOLEAN]

(* The environments a monitor is mounted in: the document loading or      *)
(* complete, first-input observable or not, and the enableResourceTiming  *)
(* prop the parent passes (default false, line 23).                       *)
InitialEnvironments ==
    [readyState : {"loading", "complete"},
     supported : {EntryTypes, EntryTypes \ {"first-input"}},
     enableResourceTiming : {FALSE}]
    \cup {[readyState |-> "loading", supported |-> EntryTypes,
           enableResourceTiming |-> TRUE]}

MonInit ==
    /\ metrics = EmptyMetrics
    /\ shownScore = calculatePerformanceScore(EmptyMetrics)
    /\ monPhase = "init"
    /\ \E env \in InitialEnvironments :
          /\ readyState = env.readyState
          /\ supported = env.supported
          /\ props = [DefaultProps EXCEPT
                         !.enableResourceTiming = env.enableResourceTiming]
    /\ runs = <<>>
    /\ observerRef = 0
    /\ updateQueue = <<>>
    /\ nEvents = 0
    /\ lastEvt = [kind |-> "init", list |-> <<>>]
    /\ emittedLast = <<>>
    /\ notifiedLast = <<>>

(* Lines 88-97: the observe calls run in order inside one try block; the   *)
(* first one that throws skips the rest and the assignment of observerRef. *)
RECURSIVE ObservedFrom(_, _)
ObservedFrom(i, sup) ==
    IF i > 4 \/ ObserveOrder[i] \notin sup THEN {}
    ELSE {ObserveOrder[i]} \cup ObservedFrom(i + 1, sup)

fcpCallbackCrossWrite(list) ==
    LET found == SelectSeq(list, LAMBDA entry : entry.name = "first-contentful-paint")
    IN  IF found # <<>>
        THEN <<[firstContentfulPaint |-> found[1].startTime,
                largestContentfulPaint |-> found[1].startTime]>>
        ELSE <<>>

(* fcpObserver, lines 48-54.                                               *)
fcpCallback(list) ==
    LET found == SelectSeq(list, LAMBDA entry : entry.name = "first-contentful-paint")
    IN  IF found # <<>> THEN <<[firstContentfulPaint |-> found[1].startTime]>>
        ELSE <<>>

(* lcpObserver, lines 57-63.                                               *)
lcpCallbackMax(list) ==
    IF Len(list) > 0
    THEN <<[largestContentfulPaint |->
             CHOOSE t \in {list[i].startTime : i \in 1..Len(list)} :
                 \A i \in 1..Len(list) : list[i].startTime <= t]>>
    ELSE <<>>

lcpCallback(list) ==
    IF Len(list) > 0
    THEN <<[largestContentfulPaint |-> list[Len(list)].startTime]>>
    ELSE <<>>

(* fidObserver, lines 66-74; an entry is a function whose domain holds the *)
(* fields that are present.                                                *)
RECURSIVE fidCallback(_)
fidCallback(list) ==
    IF list = <<>> THEN <<>>
    ELSE LET entry == Head(list)
         IN  (IF Truthy(entry, "processingStart") /\ Truthy(entry, "startTime")
              THEN <<[firstInputDelay |-> entry.processingStart - entry.startTime]>>
              ELSE <<>>) \o fidCallback(Tail(list))

(* clsObserver, lines 78-86: the result is the new clsValue of the closure *)
(* and the updates made.                                                   *)
RECURSIVE clsCallbackAll(_, _)
clsCallbackAll(clsValue, list) ==
    IF list = <<>> THEN [clsValue |-> clsValue, updates |-> <<>>]
    ELSE LET entry == Head(list)
             v == clsValue + entry.value
             rest == clsCallbackAll(v, Tail(list))
         IN  [clsValue |-> rest.clsValue,
              updates |-> <<[cumulativeLayoutShift |-> v]>> \o rest.updates]

RECURSIVE clsCallback(_, _)
clsCallback(clsValue, list) ==
    IF list = <<>> THEN [clsValue |-> clsValue, updates |-> <<>>]
    ELSE LET entry == Head(list)
         IN  IF ~entry.hadRecentInput
             THEN LET v == clsValue + entry.value
                      rest == clsCallback(v, Tail(list))
                  IN  [clsValue |-> rest.clsValue,
                       updates |-> <<[cumulativeLayoutShift |-> v]>> \o rest.updates]
             ELSE clsCallback(clsValue, Tail(list))

(* The entry lists the browser delivers, per entry type.                   *)
EntryLists(ty) ==
    CASE ty = "paint" ->
           {<<[name |-> "first-paint", startTime |-> 900]>>,
            <<[name |-> "first-paint", startTime |-> 900],
              [name |-> "first-contentful-paint", startTime |-> 1100]>>,
            <<[name |-> "first-contentful-paint", startTime |-> 2000]>>}
      [] ty = "largest-contentful-paint" ->
           {<<>>,
            <<[startTime |-> 1200], [startTime |-> 800], [startTime |-> 2000]>>,
            <<[startTime |-> 2000], [startTime |-> 800]>>}
      [] ty = "first-input" ->
           {<<[processingStart |-> 116, startTime |-> 100]>>,
            <<[startTime |-> 100]>>,
            <<[processingStart |-> 16, startTime |-> 0],
              [processingStart |-> 450, startTime |-> 100]>>}
      [] ty = "layout-shift" ->
           {<<[value |-> 50, hadRecentInput |-> FALSE]>>,
            <<[value |-> 100, hadRecentInput |-> TRUE]>>,
            <<[value |-> 50, hadRecentInput |-> FALSE],
              [value |-> 100, hadRecentInput |-> TRUE],
              [value |-> 200, hadRecentInput |-> FALSE]>>}

(* window.performance.getEntriesByType("navigation") / ("resource").       *)
NavigationEntryLists == {<<>>, <<1>>}

ResourceEntries(sizes) == [i \in 1..Len(sizes) |-> [transferSize |-> sizes[i]]]

ResourceEntryLists ==
    {ResourceEntries(<<50000>>),
     ResourceEntries(<<50000, 150000, 300000, 120000>>),
     ResourceEntries(<<150000, 100000, 200000, 110000, 90000, 190000, 120000,
                       180000, 130000, 170000, 140000, 160000, 100001>>)}

(* .sort((a, b) => b.transferSize - a.transferSize), as a stable insertion *)
(* sort.                                                                   *)
RECURSIVE InsertDesc(_, _)
InsertDesc(entry, sorted) ==
    IF sorted = <<>> THEN <<entry>>
    ELSE IF Head(sorted).transferSize >= entry.transferSize
         THEN <<Head(sorted)>> \o InsertDesc(entry, Tail(sorted))
         ELSE <<entry>> \o sorted

RECURSIVE SortDesc(_)
SortDesc(entries) ==
    IF entries = <<>> THEN <<>>
    ELSE InsertDesc(entries[Len(entries)], SortDesc(SubSeq(entries, 1, Len(entries) - 1)))

LargeResourcesUnsorted(resourceEntries) ==
    LET filtered == SelectSeq(resourceEntries,
                        LAMBDA entry : entry.transferSize > LargeResourceBytes)
    IN  SubSeq(filtered, 1,
               IF Len(filtered) < TopResources THEN Len(filtered) ELSE TopResources)

(* Lines 133-136.                                                          *)
LargeResources(resourceEntries) ==
    LET filtered == SelectSeq(resourceEntries,
                        LAMBDA entry : entry.transferSize > LargeResourceBytes)
        sorted == SortDesc(filtered)
    IN  SubSeq(sorted, 1, IF Len(sorted) < TopResources THEN Len(sorted) ELSE TopResources)

(* collectNavigationTiming(), lines 102-123.                               *)
collectNavigationTiming(navigationEntries) ==
    IF Len(navigationEntries) > 0
    THEN <<[navigationTiming |-> navigationEntries[1]]>>
    ELSE <<>>

collectResourceTimingAlways(enableResourceTiming, resourceEntries) ==
    <<[resourceTiming |-> LargeResources(resourceEntries)]>>

(* collectResourceTiming(), lines 126-148.                                 *)
collectResourceTiming(enableResourceTiming, resourceEntries) ==
    IF ~enableResourceTiming THEN <<>>
    ELSE <<[resourceTiming |-> LargeResources(resourceEntries)]>>

(* The updateMetrics calls of a callback of effect run r: each partial     *)
(* with the closure that makes the call (src is the entry type of the      *)
(* observer, or "collect"; late tells that the run was torn down before).  *)
Calls(r, run, src, partials) ==
    [i \in 1..Len(partials) |->
        [run |-> r, src |-> src, cb |-> run.props.onMetricsUpdate,
         late |-> run.tornDown, partial |-> partials[i]]]

(* updateMetrics, lines 31-42, for the calls of one step.  setMetrics      *)
(* queues its updater (prev => merge, then onMetricsUpdate); React runs    *)
(* the queued updaters at the next render.  The updater reads nothing that *)
(* changes between the call and the render except prev.  React ignores     *)
(* setMetrics once the component is unmounted.                             *)
updateMetrics(calls, phase) ==
    /\ emittedLast' = calls
    /\ notifiedLast' = <<>>
    /\ updateQueue' = IF phase = "mounted" THEN updateQueue \o calls ELSE updateQueue

RECURSIVE ApplyUpdatesCoalesced(_, _)
ApplyUpdatesCoalesced(prev, queue) ==
    IF queue = <<>> THEN [snapshot |-> prev, notified |-> <<>>]
    ELSE LET u == Head(queue)
             updated == Merge(prev, u.partial)
             rest == ApplyUpdatesCoalesced(updated, Tail(queue))
         IN  [snapshot |-> rest.snapshot,
              notified |->
                 IF Tail(queue) = <<>>
                 THEN <<[cb |-> u.cb, src |-> u.src, late |-> u.late,
                         snapshot |-> updated]>>
                 ELSE rest.notified]

(* The render that applies the queued updaters in order.                   *)
RECURSIVE ApplyUpdates(_, _)
ApplyUpdates(prev, queue) ==
    IF queue = <<>> THEN [snapshot |-> prev, notified |-> <<>>]
    ELSE LET u == Head(queue)
             updated == Merge(prev, u.partial)
             rest == ApplyUpdates(updated, Tail(queue))
         IN  [snapshot |-> rest.snapshot,
              notified |->
                 <<[cb |-> u.cb, src |-> u.src, late |-> u.late,
                    snapshot |-> updated]>> \o rest.notified]

(* The render React schedules in setMetrics runs before the next task     *)
(* (observer callback, timer, load event) of the browser.                  *)
RenderedFirst == monPhase = "mounted" => updateQueue = <<>>

MonRender ==
    /\ monPhase = "mounted"
    /\ updateQueue # <<>>
    /\ LET res == ApplyUpdates(metrics, updateQueue)
       IN  /\ metrics' = res.snapshot
           /\ notifiedLast' = res.notified
           /\ shownScore' = calculatePerformanceScore(res.snapshot)
    /\ updateQueue' = <<>>
    /\ emittedLast' = <<>>
    /\ lastEvt' = [kind |-> "render", list |-> <<>>]
    /\ UNCHANGED <<monPhase, props, runs, observerRef, readyState, supported, nEvents>>
    /\ UNCHANGED <<optVars, batVars, uiVars>>

(* The cleanup of lines 167-171: only the observer held by observerRef is  *)
(* disconnected.  The run that is torn down is the last one.               *)
Cleanup(rs, ref) ==
    [r \in 1..Len(rs) |->
        [rs[r] EXCEPT !.connected = IF r = ref THEN @ \ {"paint"} ELSE @,
                      !.tornDown = (@ \/ r = Len(rs))]]

(* The closure and the registrations a run of the effect creates.          *)
NewRun(pr) ==
    [props |-> pr, connected |-> ObservedFrom(1, supported), clsValue |-> 0,
     shifts |-> <<>>, tornDown |-> FALSE,
     loadListener |-> (readyState # "complete"), timer |-> "none"]

(* One run of the effect after the runs rs: observeWebVitals(), then the   *)
(* collection at once if the document is complete, else the load listener. *)
RunEffect(rs, pr, kind) ==
    LET r == Len(rs) + 1
        run == NewRun(pr)
    IN  /\ runs' = Append(rs, run)
        /\ observerRef' = IF run.connected = EntryTypes THEN r ELSE observerRef
        /\ props' = pr
        /\ monPhase' = "mounted"
        /\ \E navigationEntries \in NavigationEntryLists :
           \E resourceEntries \in ResourceEntryLists :
              /\ updateMetrics(
                    IF readyState = "complete"
                    THEN Calls(r, run, "collect",
                           collectNavigationTiming(navigationEntries) \o
                           collectResourceTiming(pr.enableResourceTiming, resourceEntries))
                    ELSE <<>>,
                    "mounted")
              /\ lastEvt' = [kind |-> kind,
                             list |-> IF readyState = "complete" /\ pr.enableResourceTiming
                                      THEN resourceEntries ELSE <<>>]

Mount ==
    /\ monPhase = "init"
    /\ RunEffect(runs, props, "mount")
    /\ UNCHANGED <<metrics, shownScore, readyState, supported, nEvents>>
    /\ UNCHANGED <<optVars, batVars, uiVars>>

(* A render with a changed dependency (line 172): cleanup, then the effect *)
(* again.                                                                  *)
PropsChange ==
    /\ monPhase = "mounted"
    /\ RenderedFirst
    /\ Len(runs) < MaxRuns
    /\ \E pr \in PropsValues :
          /\ pr # props
          /\ Cardinality({k \in DOMAIN pr : pr[k] # props[k]}) = 1
          /\ RunEffect(Cleanup(runs, observerRef), pr, "props")
    /\ UNCHANGED <<metrics, shownScore, readyState, supported, nEvents>>
    /\ UNCHANGED <<optVars, batVars, uiVars>>

Unmount ==
    /\ monPhase = "mounted"
    /\ monPhase' = "unmounted"
    /\ runs' = Cleanup(runs, observerRef)
    /\ lastEvt' = [kind |-> "unmount", list |-> <<>>]
    /\ emittedLast' = <<>>
    /\ notifiedLast' = <<>>
    /\ UNCHANGED <<metrics, shownScore, props, observerRef, updateQueue,
                   readyState, supported, nEvents>>
    /\ UNCHANGED <<optVars, batVars, uiVars>>

(* What the observer of entry type ty of one effect run does with a list.  *)
ObserverCallback(ty, run, list) ==
    CASE ty = "paint" -> [clsValue |-> run.clsValue, updates |-> fcpCallback(list)]
      [] ty = "largest-contentful-paint" ->
           [clsValue |-> run.clsValue, updates |-> lcpCallback(list)]
      [] ty = "first-input" ->
           [clsValue |-> run.clsValue, updates |-> fidCallback(list)]
      [] ty = "layout-shift" -> clsCallback(run.clsValue, list)

(* The calls made by the observers of runs r..Len(runs) for one list.      *)
RECURSIVE DeliverFrom(_, _, _)
DeliverFrom(r, ty, list) ==
    IF r > Len(runs) THEN <<>>
    ELSE (IF ty \in runs[r].connected
          THEN Calls(r, runs[r], ty, ObserverCallback(ty, runs[r], list).updates)
          ELSE <<>>) \o DeliverFrom(r + 1, ty, list)

(* The browser delivers one entry list of type ty to every observer that   *)
(* is connected for it.                                                    *)
Deliver ==
    \E ty \in EntryTypes : \E list \in EntryLists(ty) :
        /\ monPhase # "init"
        /\ RenderedFirst
        /\ nEvents < MaxEvents
        /\ \E r \in 1..Len(runs) : ty \in runs[r].connected
        /\ runs' = [r \in 1..Len(runs) |->
              IF ty \in runs[r].connected
              THEN [runs[r] EXCEPT
                      !.clsValue = ObserverCallback(ty, runs[r], list).clsValue,
                      !.shifts = IF ty = "layout-shift" THEN @ \o list ELSE @]
              ELSE runs[r]]
        /\ updateMetrics(DeliverFrom(1, ty, list), monPhase)
        /\ nEvents' = nEvents + 1
        /\ lastEvt' = [kind |-> ty, list |-> list]
        /\ UNCHANGED <<metrics, shownScore, monPhase, props, observerRef,
                       readyState, supported>>
        /\ UNCHANGED <<optVars, batVars, uiVars>>

(* The load event: every listener added at line 158 runs (none is ever     *)
(* removed) and starts its setTimeout of 1000 ms.                          *)
WindowLoad ==
    /\ monPhase # "init"
    /\ RenderedFirst
    /\ readyState = "loading"
    /\ readyState' = "complete"
    /\ runs' = [r \in 1..Len(runs) |->
          IF runs[r].loadListener
          THEN [runs[r] EXCEPT !.timer = "pending", !.loadListener = FALSE]
          ELSE runs[r]]
    /\ lastEvt' = [kind |-> "load", list |-> <<>>]
    /\ emittedLast' = <<>>
    /\ notifiedLast' = <<>>
    /\ UNCHANGED <<metrics, shownScore, monPhase, props, observerRef,
                   updateQueue, supported, nEvents>>
    /\ UNCHANGED <<optVars, batVars, uiVars>>

(* The setTimeout callback of lines 159-162 of one effect run; the timers   *)
(* all start at the load event with the same delay and run in the order    *)
(* they were set.                                                          *)
LoadTimerFire ==
    \E r \in 1..Len(runs) :
    \E navigationEntries \in NavigationEntryLists :
    \E resourceEntries \in ResourceEntryLists :
        /\ runs[r].timer = "pending"
        /\ \A q \in 1..(r - 1) : runs[q].timer # "pending"
        /\ RenderedFirst
        /\ runs' = [runs EXCEPT ![r].timer = "done"]
        /\ updateMetrics(
              Calls(r, runs[r], "collect",
                 collectNavigationTiming(navigationEntries) \o
                 collectResourceTiming(runs[r].props.enableResourceTiming,
                                       resourceEntries)),
              monPhase)
        /\ lastEvt' = [kind |-> "timer",
                       list |-> IF runs[r].props.enableResourceTiming
                                THEN resourceEntries ELSE <<>>]
        /\ UNCHANGED <<metrics, shownScore, monPhase, props, observerRef,
                       readyState, supported, nEvents>>
        /\ UNCHANGED <<optVars, batVars, uiVars>>

(* The monitor and its four observers, the document staying as it is.      *)
MonNext ==
    \/ Mount
    \/ PropsChange
    \/ Unmount
    \/ Deliver
    \/ MonRender

(* The monitor and the deferred collection after the load event.           *)
LoadNext ==
    \/ Mount
    \/ PropsChange
    \/ Unmount
    \/ WindowLoad
    \/ LoadTimerFire
    \/ MonRender

----------------------------------------------------------------------------
(* useOptimizedState(initialState, debounceMs).                            *)

DebounceMs == 300
InitialState == 0
MaxVal == 2         \* the values of T are 0..MaxVal
MaxUpdates == 3     \* setOptimizedState calls in one behaviour
MaxTime == 700      \* the clock stops here

Vals == 0..MaxVal

(* The argument of the setter: a plain value (fn = FALSE, the value v) or  *)
(* an updater function (fn = TRUE: prev => (prev + v) % (MaxVal + 1)).     *)
UpdateArgs == [fn : {FALSE}, v : Vals] \cup [fn : {TRUE}, v : {1}]

(* typeof value === "function" ? value(prev) : value                       *)
Apply(value, prev) ==
    IF value.fn THEN (prev + value.v) % (MaxVal + 1) ELSE value.v

(* React applies the queued setState arguments in order at the render.     *)
RECURSIVE ApplyQueue(_, _)
ApplyQueue(prev, queue) ==
    IF queue = <<>> THEN prev
    ELSE ApplyQueue(Apply(Head(queue), prev), Tail(queue))

(* clearTimeout(handle)                                                    *)
clearTimeout(pending, handle) == {t \in pending : t.id # handle}

OptInit ==
    /\ state = InitialState
    /\ stateQueue = <<>>
    /\ debouncedState = InitialState
    /\ timeoutRef = 0
    /\ timers = {}
    /\ now = 0
    /\ optMounted = TRUE
    /\ optLast = "mount"
    /\ lastUpdateAt = 0
    /\ nUpdates = 0
    /\ writes = 0

(* The timer callback of setOptimizedState captures value and the state of *)
(* the render that created the setter (useCallback deps [debounceMs,       *)
(* state]): that is the rendered state at the time of the call.            *)
setOptimizedState(value) ==
    /\ optMounted
    /\ nUpdates < MaxUpdates
    /\ stateQueue' = Append(stateQueue, value)
    /\ LET cleared == IF timeoutRef # 0 THEN clearTimeout(timers, timeoutRef)
                      ELSE timers
           handle == nUpdates + 1
       IN  /\ timers' = cleared \cup
                 {[id |-> handle, at |-> now + DebounceMs,
                   value |-> value, state |-> state]}
           /\ timeoutRef' = handle
           /\ writes' = IF timers = {} THEN 0 ELSE writes
    /\ nUpdates' = nUpdates + 1
    /\ lastUpdateAt' = now
    /\ optLast' = "update"
    /\ UNCHANGED <<state, debouncedState, now, optMounted>>
    /\ UNCHANGED <<monVars, batVars, uiVars>>

(* The re-render that follows setState: the queued updates are applied.    *)
OptRender ==
    /\ optMounted
    /\ stateQueue # <<>>
    /\ state' = ApplyQueue(state, stateQueue)
    /\ stateQueue' = <<>>
    /\ optLast' = "render"
    /\ UNCHANGED <<debouncedState, timeoutRef, timers, now, optMounted,
                   lastUpdateAt, nUpdates, writes>>
    /\ UNCHANGED <<monVars, batVars, uiVars>>

(* The value the timer callback passes to setDebouncedState.               *)
DebouncedValue(t, current) ==
    IF t.value.fn THEN Apply(t.value, t.state) ELSE t.value.v

(* A pending timer reaches its time: the callback of lines 24-26 runs.     *)
OptTimerFire ==
    \E t \in timers :
        /\ t.at <= now
        /\ debouncedState' = DebouncedValue(t, state)
        /\ timers' = timers \ {t}
        /\ writes' = writes + 1
        /\ optLast' = "fire"
        /\ UNCHANGED <<state, stateQueue, timeoutRef, now, optMounted,
                       lastUpdateAt, nUpdates>>
        /\ UNCHANGED <<monVars, batVars, uiVars>>

(* Time passes.  React renders before the next timer; a due timer fires    *)
(* before the clock passes it.                                             *)
Elapse ==
    \E d \in {50, 100} :
        /\ now + d <= MaxTime
        /\ optMounted => stateQueue = <<>>
        /\ \A t \in timers : now + d <= t.at
        /\ now' = now + d
        /\ optLast' = "elapse"
        /\ UNCHANGED <<state, stateQueue, debouncedState, timeoutRef, timers,
                       optMounted, lastUpdateAt, nUpdates, writes>>
        /\ UNCHANGED <<monVars, batVars, uiVars>>

OptUnmountKeepsTimer ==
    /\ optMounted
    /\ optMounted' = FALSE
    /\ optLast' = "unmount"
    /\ UNCHANGED <<state, stateQueue, debouncedState, timeoutRef, timers, now,
                   lastUpdateAt, nUpdates, writes>>
    /\ UNCHANGED <<monVars, batVars, uiVars>>

(* The cleanup of the effect of lines 31-37.                               *)
OptUnmount ==
    /\ optMounted
    /\ optMounted' = FALSE
    /\ timers' = IF timeoutRef # 0 THEN clearTimeout(timers, timeoutRef)
                 ELSE timers
    /\ optLast' = "unmount"
    /\ UNCHANGED <<state, stateQueue, debouncedState, timeoutRef, now,
                   lastUpdateAt, nUpdates, writes>>
    /\ UNCHANGED <<monVars, batVars, uiVars>>

OptNext ==
    \/ \E value \in UpdateArgs : setOptimizedState(value)
    \/ OptRender
    \/ OptTimerFire
    \/ Elapse
    \/ OptUnmount

----------------------------------------------------------------------------
(* useBatchedState(initialState).                                          *)

MaxBatched == 3     \* batchedSetState calls in one behaviour

BatchInitial == [a |-> 0, c |-> 0]

(* The partial updates a caller submits.                                   *)
BatchUpdates == {[a |-> 1], [b |-> 2], [a |-> 3], [a |-> 1, b |-> 2]}

BatInit ==
    /\ batchState = BatchInitial
    /\ batchQueue = <<>>
    /\ pendingUpdatesRef = EmptyMetrics
    /\ batchTimeoutRef = 0
    /\ batchTimers = {}
    /\ batMounted = TRUE
    /\ batLast = "mount"
    /\ submitted = EmptyMetrics
    /\ nBatched = 0

batchedSetState(updates) ==
    /\ batMounted
    /\ nBatched < MaxBatched
    /\ pendingUpdatesRef' = Merge(pendingUpdatesRef, updates)
    /\ LET cleared == IF batchTimeoutRef # 0
                      THEN clearTimeout(batchTimers, batchTimeoutRef)
                      ELSE batchTimers
           handle == nBatched + 1
       IN  /\ batchTimers' = cleared \cup {[id |-> handle]}
           /\ batchTimeoutRef' = handle
    /\ submitted' = Merge(submitted, updates)
    /\ nBatched' = nBatched + 1
    /\ batLast' = "update"
    /\ UNCHANGED <<batchState, batchQueue, batMounted>>
    /\ UNCHANGED <<monVars, optVars, uiVars>>

(* The timer callback of lines 62-68: setState(updater), then the          *)
(* accumulator is replaced by {}.  The updater reads                       *)
(* pendingUpdatesRef.current when React evaluates it: at once (eager, only *)
(* possible when no update is queued) or at the next render.               *)
BatchFlush ==
    \E t \in batchTimers : \E eager \in BOOLEAN :
        /\ eager => batchQueue = <<>>
        /\ batchQueue' = Append(batchQueue,
               IF eager
               THEN [eager |-> TRUE, s |-> Merge(batchState, pendingUpdatesRef)]
               ELSE [eager |-> FALSE, s |-> EmptyMetrics])
        /\ pendingUpdatesRef' = EmptyMetrics
        /\ batchTimers' = batchTimers \ {t}
        /\ batLast' = "flush"
        /\ UNCHANGED <<batchState, batchTimeoutRef, batMounted, submitted, nBatched>>
        /\ UNCHANGED <<monVars, optVars, uiVars>>

(* prevState => ({ ...prevState, ...pendingUpdatesRef.current }) for each  *)
(* queued updater, the accumulator being read when the updater runs.       *)
RECURSIVE ApplyBatchQueue(_, _, _)
ApplyBatchQueue(prevState, queue, pending) ==
    IF queue = <<>> THEN prevState
    ELSE ApplyBatchQueue(
             IF Head(queue).eager THEN Head(queue).s
             ELSE Merge(prevState, pending),
             Tail(queue), pending)

(* The re-render that follows setState.                                    *)
BatchRender ==
    /\ batMounted
    /\ batchQueue # <<>>
    /\ batchState' = ApplyBatchQueue(batchState, batchQueue, pendingUpdatesRef)
    /\ batchQueue' = <<>>
    /\ batLast' = "render"
    /\ UNCHANGED <<pendingUpdatesRef, batchTimeoutRef, batchTimers, batMounted,
                   submitted, nBatched>>
    /\ UNCHANGED <<monVars, optVars, uiVars>>

BatchUnmountKeepsTimer ==
    /\ batMounted
    /\ batMounted' = FALSE
    /\ batLast' = "unmount"
    /\ UNCHANGED <<batchState, batchQueue, pendingUpdatesRef, batchTimeoutRef,
                   batchTimers, submitted, nBatched>>
    /\ UNCHANGED <<monVars, optVars, uiVars>>

(* The cleanup of the effect of lines 71-77.                               *)
BatchUnmount ==
    /\ batMounted
    /\ batMounted' = FALSE
    /\ batchTimers' = IF batchTimeoutRef # 0
                      THEN clearTimeout(batchTimers, batchTimeoutRef)
                      ELSE batchTimers
    /\ batLast' = "unmount"
    /\ UNCHANGED <<batchState, batchQueue, pendingUpdatesRef, batchTimeoutRef,
                   submitted, nBatched>>
    /\ UNCHANGED <<monVars, optVars, uiVars>>

BatchNext ==
    \/ \E updates \in BatchUpdates : batchedSetState(updates)
    \/ BatchFlush
    \/ BatchRender
    \/ BatchUnmount

----------------------------------------------------------------------------
(* useVirtualizedList(items, itemHeight, containerHeight, overscan).       *)

MaxItems == 4             \* items.length is 0..MaxItems
MaxItemHeight == 3        \* itemHeight is 1..MaxItemHeight
MaxContainerHeight == 4   \* containerHeight is 0..MaxContainerHeight
MaxOverscan == 1          \* overscan is 0..MaxOverscan
MaxScrollTop == 8         \* scrollTop is 0..MaxScrollTop

Min(a, b) == IF a <= b THEN a ELSE b

FloorRoundsUp(a, b) == -((-a) \div b)

(* Math.floor(a / b) and Math.ceil(a / b) for b > 0.                       *)
Floor(a, b) == a \div b

Ceil(a, b) == -((-a) \div b)

(* Array.prototype.slice(start, end); the elements of the result are       *)
(* items[start], ..., items[end - 1] in the 0-based indexing of the code.  *)
slice(items, start, end) ==
    LET rel(k) == IF k < 0 THEN Max(Len(items) + k, 0) ELSE Min(k, Len(items))
    IN  IF rel(start) < rel(end) THEN SubSeq(items, rel(start) + 1, rel(end))
        ELSE <<>>

(* One render of the hook, lines 120-137.                                  *)
useVirtualizedList(items, itemHeight, containerHeight, overscan, top) ==
    LET visibleStartIndex == Max(0, Floor(top, itemHeight) - overscan)
        visibleEndIndex ==
            Min(Len(items) - 1, Ceil(top + containerHeight, itemHeight) + overscan)
    IN  [visibleItems |-> slice(items, visibleStartIndex, visibleEndIndex + 1),
         totalHeight |-> Len(items) * itemHeight,
         offsetY |-> visibleStartIndex * itemHeight,
         visibleStartIndex |-> visibleStartIndex,
         visibleEndIndex |-> visibleEndIndex]

VirtRender(p, top) ==
    useVirtualizedList(p.items, p.itemHeight, p.containerHeight, p.overscan, top)

(* The arguments a caller passes: items 10, 11, ... of any length.         *)
VirtPropsValues ==
    [items : {[i \in 1..n |-> 9 + i] : n \in 0..MaxItems},
     itemHeight : 1..MaxItemHeight,
     containerHeight : 0..MaxContainerHeight,
     overscan : 0..MaxOverscan]

VirtInit ==
    /\ virtPhase = "init"
    /\ virtProps = [items |-> <<>>, itemHeight |-> 1, containerHeight |-> 0,
                    overscan |-> 0]
    /\ scrollTop = 0
    /\ virtView = VirtRender(virtProps, 0)

(* The first render: useState(0), line 118.                                *)
VirtMount ==
    /\ virtPhase = "init"
    /\ \E p \in VirtPropsValues :
          /\ virtProps' = p
          /\ virtView' = VirtRender(p, scrollTop)
    /\ virtPhase' = "mounted"
    /\ UNCHANGED scrollTop
    /\ UNCHANGED <<monVars, optVars, batVars, imgVars>>

(* setScrollTop(value) and the re-render that follows.                     *)
setScrollTop(value) ==
    /\ virtPhase = "mounted"
    /\ scrollTop' = value
    /\ virtView' = VirtRender(virtProps, value)
    /\ UNCHANGED <<virtPhase, virtProps>>
    /\ UNCHANGED <<monVars, optVars, batVars, imgVars>>

(* A re-render with another items array (the list grew or shrank).         *)
VirtItemsChange ==
    /\ virtPhase = "mounted"
    /\ \E p \in VirtPropsValues :
          /\ p.items # virtProps.items
          /\ p = [virtProps EXCEPT !.items = p.items]
          /\ virtProps' = p
          /\ virtView' = VirtRender(p, scrollTop)
    /\ UNCHANGED <<virtPhase, scrollTop>>
    /\ UNCHANGED <<monVars, optVars, batVars, imgVars>>

VirtNext ==
    \/ VirtMount
    \/ \E value \in 0..MaxScrollTop : setScrollTop(value)
    \/ VirtItemsChange

----------------------------------------------------------------------------
(* ProgressiveImage rendering its high-quality OptimizedImage, which uses  *)
(* useLazyLoad and renders the <Image> element.                            *)

MaxIntersections == 2   \* IntersectionObserver callbacks in one behaviour
MaxSrcChanges == 2      \* changes of the src prop in one behaviour

(* fallbackSrc is optional: "undefined" stands for the prop not given.     *)
ImgPropsValues ==
    [src : {"a", "b"}, fallbackSrc : {"undefined", "f"},
     enableLazyLoad : BOOLEAN, lazyLoadThreshold : {1, 5}]

NoElement == [src |-> "none", status |-> "none"]

(* The entry lists an IntersectionObserver callback receives for the one   *)
(* observed target: isIntersecting of each entry, oldest first.            *)
IntersectionEntryLists == {<<TRUE>>, <<FALSE>>, <<FALSE, TRUE>>, <<TRUE, FALSE>>}

(* Line 57.                                                                *)
shouldRenderImage(enableLazyLoad, visible) == ~enableLazyLoad \/ visible

(* The element after a render with the given visibility and source: a      *)
(* changed src attribute starts a new request.                             *)
RenderElement(el, enableLazyLoad, visible, source) ==
    IF ~shouldRenderImage(enableLazyLoad, visible) THEN NoElement
    ELSE IF el.src = source THEN el
    ELSE [src |-> source, status |-> "loading"]

handleErrorRetries(fallbackSrc, source) ==
    IF fallbackSrc # "undefined"
    THEN [isLoading |-> TRUE, hasError |-> FALSE, currentSrc |-> fallbackSrc,
          calls |-> {}]
    ELSE [isLoading |-> FALSE, hasError |-> TRUE, currentSrc |-> source,
          calls |-> {"onError"}]

(* handleError, lines 43-54: the state after the batched setters, and the  *)
(* callbacks called.                                                       *)
handleError(fallbackSrc, source) ==
    IF fallbackSrc # "undefined" /\ source # fallbackSrc
    THEN [isLoading |-> TRUE, hasError |-> FALSE, currentSrc |-> fallbackSrc,
          calls |-> {}]
    ELSE [isLoading |-> FALSE, hasError |-> TRUE, currentSrc |-> source,
          calls |-> {"onError"}]

(* The IntersectionObserver callback of useLazyLoad, lines 150-155: TRUE   *)
(* when it calls setIsVisible(true) and setHasLoaded(true).                *)
lazyCallback(entries, loaded) == entries[1] /\ ~loaded

ImgInit ==
    /\ imgPhase = "init"
    /\ imgProps = [src |-> "a", fallbackSrc |-> "undefined",
                   enableLazyLoad |-> TRUE, lazyLoadThreshold |-> 1]
    /\ isLoading = TRUE
    /\ hasError = FALSE
    /\ currentSrc = "a"
    /\ isVisible = FALSE
    /\ hasLoaded = FALSE
    /\ elt = NoElement
    /\ isHighQualityLoaded = FALSE
    /\ imgCalls = {}
    /\ switches = 0
    /\ nIntersections = 0
    /\ nSrcChanges = 0
    /\ imgLast = [kind |-> "init", entries |-> <<>>]

(* The first render and its effects (lines 26-36, 159).                    *)
ImgMount ==
    /\ imgPhase = "init"
    /\ \E p \in ImgPropsValues :
          /\ imgProps' = p
          /\ currentSrc' = p.src
          /\ elt' = RenderElement(NoElement, p.enableLazyLoad, FALSE, p.src)
    /\ imgPhase' = "mounted"
    /\ isLoading' = TRUE
    /\ hasError' = FALSE
    /\ isVisible' = FALSE
    /\ hasLoaded' = FALSE
    /\ isHighQualityLoaded' = FALSE
    /\ imgCalls' = {}
    /\ imgLast' = [kind |-> "mount", entries |-> <<>>]
    /\ UNCHANGED <<switches, nIntersections, nSrcChanges>>
    /\ UNCHANGED <<monVars, optVars, batVars, virtVars>>

(* The load event of the element: handleLoad (lines 38-41), whose          *)
(* onLoadComplete is the callback of ProgressiveImage (lines 178-181).     *)
ImgLoad ==
    /\ imgPhase = "mounted"
    /\ elt.status = "loading"
    /\ elt' = [elt EXCEPT !.status = "loaded"]
    /\ isLoading' = FALSE
    /\ isHighQualityLoaded' = TRUE
    /\ imgCalls' = {"onLoadComplete"}
    /\ imgLast' = [kind |-> "load", entries |-> <<>>]
    /\ UNCHANGED <<imgPhase, imgProps, hasError, currentSrc, isVisible,
                   hasLoaded, switches, nIntersections, nSrcChanges>>
    /\ UNCHANGED <<monVars, optVars, batVars, virtVars>>

(* The error event of the element: handleError, then the re-render.        *)
ImgError ==
    /\ imgPhase = "mounted"
    /\ elt.status = "loading"
    /\ LET r == handleError(imgProps.fallbackSrc, currentSrc)
       IN  /\ isLoading' = r.isLoading
           /\ hasError' = r.hasError
           /\ currentSrc' = r.currentSrc
           /\ imgCalls' = r.calls
           /\ switches' = IF r.currentSrc # currentSrc THEN switches + 1 ELSE switches
           /\ elt' = RenderElement([elt EXCEPT !.status = "failed"],
                                   imgProps.enableLazyLoad, isVisible, r.currentSrc)
    /\ imgLast' = [kind |-> "error", entries |-> <<>>]
    /\ UNCHANGED <<imgPhase, imgProps, isVisible, hasLoaded,
                   isHighQualityLoaded, nIntersections, nSrcChanges>>
    /\ UNCHANGED <<monVars, optVars, batVars, virtVars>>

IntersectTracks(entries) ==
    /\ imgPhase = "mounted"
    /\ nIntersections < MaxIntersections
    /\ nIntersections' = nIntersections + 1
    /\ isVisible' = entries[1]
    /\ hasLoaded' = (hasLoaded \/ entries[1])
    /\ elt' = RenderElement(elt, imgProps.enableLazyLoad, isVisible', currentSrc)
    /\ imgCalls' = {}
    /\ imgLast' = [kind |-> "intersect", entries |-> entries]
    /\ UNCHANGED <<imgPhase, imgProps, isLoading, hasError, currentSrc,
                   isHighQualityLoaded, switches, nSrcChanges>>
    /\ UNCHANGED <<monVars, optVars, batVars, virtVars>>

(* One callback of the IntersectionObserver, then the re-render.           *)
Intersect(entries) ==
    /\ imgPhase = "mounted"
    /\ nIntersections < MaxIntersections
    /\ nIntersections' = nIntersections + 1
    /\ LET latch == lazyCallback(entries, hasLoaded)
       IN  /\ isVisible' = (isVisible \/ latch)
           /\ hasLoaded' = (hasLoaded \/ latch)
           /\ elt' = RenderElement(elt, imgProps.enableLazyLoad, isVisible', currentSrc)
    /\ imgCalls' = {}
    /\ imgLast' = [kind |-> "intersect", entries |-> entries]
    /\ UNCHANGED <<imgPhase, imgProps, isLoading, hasError, currentSrc,
                   isHighQualityLoaded, switches, nSrcChanges>>
    /\ UNCHANGED <<monVars, optVars, batVars, virtVars>>

(* The parent passes another src: the render, the reset effect of lines    *)
(* 32-36 and the render it causes.                                         *)
ImgSrcChange ==
    /\ imgPhase = "mounted"
    /\ nSrcChanges < MaxSrcChanges
    /\ \E source \in {"a", "b"} :
          /\ source # imgProps.src
          /\ imgProps' = [imgProps EXCEPT !.src = source]
          /\ currentSrc' = source
          /\ elt' = RenderElement(elt, imgProps.enableLazyLoad, isVisible, source)
    /\ isLoading' = TRUE
    /\ hasError' = FALSE
    /\ switches' = 0
    /\ nSrcChanges' = nSrcChanges + 1
    /\ imgCalls' = {}
    /\ imgLast' = [kind |-> "src", entries |-> <<>>]
    /\ UNCHANGED <<imgPhase, isVisible, hasLoaded, isHighQualityLoaded,
                   nIntersections>>
    /\ UNCHANGED <<monVars, optVars, batVars, virtVars>>

(* The parent passes another lazyLoadThreshold: the effect of useLazyLoad  *)
(* runs again (line 169) with a new observer.                              *)
ImgThresholdChange ==
    /\ imgPhase = "mounted"
    /\ imgProps' = [imgProps EXCEPT !.lazyLoadThreshold = 6 - @]
    /\ imgCalls' = {}
    /\ imgLast' = [kind |-> "threshold", entries |-> <<>>]
    /\ UNCHANGED <<imgPhase, isLoading, hasError, currentSrc, isVisible,
                   hasLoaded, elt, isHighQualityLoaded, switches,
                   nIntersections, nSrcChanges>>
    /\ UNCHANGED <<monVars, optVars, batVars, virtVars>>

(* Unmount: the element is removed and the observer unobserves.            *)
ImgUnmount ==
    /\ imgPhase = "mounted"
    /\ imgPhase' = "unmounted"
    /\ elt' = NoElement
    /\ imgCalls' = {}
    /\ imgLast' = [kind |-> "unmount", entries |-> <<>>]
    /\ UNCHANGED <<imgProps, isLoading, hasError, currentSrc, isVisible,
                   hasLoaded, isHighQualityLoaded, switches, nIntersections,
                   nSrcChanges>>
    /\ UNCHANGED <<monVars, optVars, batVars, virtVars>>

ImgNext ==
    \/ ImgMount
    \/ ImgLoad
    \/ ImgError
    \/ \E entries \in IntersectionEntryLists : Intersect(entries)
    \/ ImgSrcChange
    \/ ImgThresholdChange
    \/ ImgUnmount

----------------------------------------------------------------------------
(* The specifications of the components and hooks.                         *)
Init == MonInit /\ OptInit /\ BatInit /\ VirtInit /\ ImgInit

SpecImage == Init /\ [][ImgNext]_vars

SpecVirtualized == Init /\ [][VirtNext]_vars

SpecOptimized == Init /\ [][OptNext]_vars

SpecBatched == Init /\ [][BatchNext]_vars

SpecMonitor == Init /\ [][MonNext]_vars

SpecLoad == Init /\ [][LoadNext]_vars

----------------------------------------------------------------------------
(* Specification SpecScore: the snapshot under arbitrary metric updates,   *)
(* each followed by the re-render that shows the score.                    *)

ScoreFields == {"firstContentfulPaint", "largestContentfulPaint",
                "firstInputDelay", "cumulativeLayoutShift"}

ScoreValues(f) ==
    CASE f = "firstContentfulPaint"   -> {0, 1000, 1001, 1800, 1801, 2000, 5000}
      [] f = "largestContentfulPaint" -> {0, 2500, 2501, 3000, 4000, 4001, 5000}
      [] f = "firstInputDelay"        -> {0, 50, 100, 101, 300, 301, 500}
      [] f = "cumulativeLayoutShift"  -> {0, 50, 100, 101, 250, 251, 300}

(* updateMetrics(newMetrics) with a one-field partial, and the render of   *)
(* the merged snapshot.                                                    *)
ScoreUpdate ==
    \E f \in ScoreFields : \E v \in ScoreValues(f) :
        /\ metrics' = Merge(metrics, [g \in {f} |-> v])
        /\ shownScore' = calculatePerformanceScore(metrics')
        /\ UNCHANGED <<monPhase, props, runs, observerRef, updateQueue,
                       readyState, supported, nEvents, lastEvt, emittedLast,
                       notifiedLast>>
        /\ UNCHANGED <<optVars, batVars, uiVars>>

ScoreNext == ScoreUpdate

SpecScore == Init /\ [][ScoreNext]_vars

----------------------------------------------------------------------------
(* C3: for every snapshot reached by any sequence of metric updates, the   *)
(* score is an integer in [0, 100].                                        *)
C3_ScoreInRange == shownScore \in 0..100

C3_Witness ==
    /\ DOMAIN metrics = ScoreFields
    /\ metrics = [firstContentfulPaint |-> 5000, largestContentfulPaint |-> 5000,
                  firstInputDelay |-> 500, cumulativeLayoutShift |-> 300]
    /\ shownScore = 30

(* C4: the score is monotonically non-increasing in each metric: raising   *)
(* one set metric of the snapshot, the others fixed, never raises it.      *)
C4_ScoreMonotone ==
    \A f \in DOMAIN metrics : \A v \in ScoreValues(f) :
        v > metrics[f] =>
            calculatePerformanceScore([metrics EXCEPT ![f] = v]) <= shownScore

C4_Witness ==
    /\ "firstContentfulPaint" \in DOMAIN metrics
    /\ metrics["firstContentfulPaint"] = 1001
    /\ shownScore = 95
    /\ calculatePerformanceScore([metrics EXCEPT !["firstContentfulPaint"] = 1801]) = 85

(* C5: the score is 100 minus one penalty per metric, taken from the       *)
(* deduction table; an unset metric contributes 0.                         *)
TablePenalty(m, f) ==
    LET poor == CASE f = "firstContentfulPaint" -> <<1800, 15>>
                  [] f = "largestContentfulPaint" -> <<4000, 20>>
                  [] f = "firstInputDelay" -> <<300, 15>>
                  [] f = "cumulativeLayoutShift" -> <<250, 20>>
        ni ==   CASE f = "firstContentfulPaint" -> <<1000, 5>>
                  [] f = "largestContentfulPaint" -> <<2500, 10>>
                  [] f = "firstInputDelay" -> <<100, 5>>
                  [] f = "cumulativeLayoutShift" -> <<100, 10>>
    IN  IF f \notin DOMAIN m THEN 0
        ELSE IF m[f] > poor[1] THEN poor[2]
        ELSE IF m[f] > ni[1] THEN ni[2]
        ELSE 0

C6_FireSetsImmediate ==
    (optLast = "fire") => debouncedState = state

(* C7: a burst of updates, each arriving while the previous timer is       *)
(* pending, writes the debounced value exactly once, debounceMs after the  *)
(* last update, and the value written is that of the last update.          *)
C7_BurstCoalesces ==
    (optLast = "fire") =>
        /\ writes = 1
        /\ now = lastUpdateAt + DebounceMs
        /\ debouncedState = state
(* C8: the committed state after the flush of a batch is the previous      *)
(* committed state overwritten by the submitted updates in order: last     *)
(* write wins per field, untouched fields keep their value.                *)
C8_FlushCommitsBatch ==
    (batLast = "render" /\ batchTimers = {}) =>
        batchState = Merge(BatchInitial, submitted)

(* C9: a flush leaves the accumulator empty and loses no update: once the  *)
(* component is quiescent, every submitted field has its last submitted    *)
(* value in the committed state.                                           *)
C9_NoUpdateLost ==
    /\ (batLast = "flush") => pendingUpdatesRef = EmptyMetrics
    /\ (batMounted /\ batchTimers = {} /\ batchQueue = <<>>) =>
           \A f \in DOMAIN submitted :
               f \in DOMAIN batchState /\ batchState[f] = submitted[f]
(* C1: after the cleanup of the effect all four observers are              *)
(* disconnected: no entry delivered afterwards to an observer of the run   *)
(* that was torn down changes the snapshot or notifies the subscriber.     *)
(* Stated for the environment in which all four observe calls succeed.     *)
C1_TeardownDisconnectsAll ==
    (supported = EntryTypes) =>
    /\ \A i \in 1..Len(notifiedLast) :
          ~(notifiedLast[i].late /\ notifiedLast[i].src \in EntryTypes)
    /\ \A i \in 1..Len(updateQueue) :
          ~(updateQueue[i].late /\ updateQueue[i].src \in EntryTypes)

(* C2: in each monitoring session (effect run) the accumulator is the sum  *)
(* of value over the layout-shift entries seen so far with hadRecentInput  *)
(* false; each such entry emits the running total, and an entry with       *)
(* hadRecentInput true emits nothing and leaves the accumulator alone.     *)
RECURSIVE SumValues(_)
SumValues(entries) ==
    IF entries = <<>> THEN 0 ELSE Head(entries).value + SumValues(Tail(entries))

WithoutRecentInput(entries) ==
    SelectSeq(entries, LAMBDA entry : entry.hadRecentInput = FALSE)

C2_ClsIsSumOfShifts ==
    \A r \in 1..Len(runs) :
        /\ runs[r].clsValue = SumValues(WithoutRecentInput(runs[r].shifts))
        /\ (lastEvt.kind = "layout-shift" /\ "layout-shift" \in runs[r].connected) =>
              LET mine == SelectSeq(emittedLast, LAMBDA c : c.run = r)
                  counted == WithoutRecentInput(lastEvt.list)
                  before == SubSeq(runs[r].shifts, 1,
                                   Len(runs[r].shifts) - Len(lastEvt.list))
              IN  /\ Len(mine) = Len(counted)
                  /\ \A k \in 1..Len(mine) :
                        mine[k].partial =
                           [cumulativeLayoutShift |->
                               SumValues(WithoutRecentInput(before))
                               + SumValues(SubSeq(counted, 1, k))]

C2_Witness ==
    /\ lastEvt.kind = "layout-shift"
    /\ Len(lastEvt.list) = 3
    /\ monPhase = "mounted"
    /\ \E r \in 1..Len(runs) :
          /\ ~runs[r].tornDown
          /\ Len(runs[r].shifts) = 4
          /\ runs[r].clsValue = 300
          /\ emittedLast[Len(emittedLast)].run = r
          /\ emittedLast[Len(emittedLast)].partial = [cumulativeLayoutShift |-> 300]

(* C10: each non-empty largest-contentful-paint list delivered emits an    *)
(* update whose value is the startTime of the last entry of the list, not  *)
(* the maximum, and the snapshot the next render shows has that value,     *)
(* also when it is smaller than the value before.                          *)
C10_LcpLastEntryWins ==
    (lastEvt.kind = "largest-contentful-paint") =>
        IF lastEvt.list = <<>> THEN emittedLast = <<>>
        ELSE LET last == lastEvt.list[Len(lastEvt.list)].startTime
             IN  /\ emittedLast # <<>>
                 /\ \A i \in 1..Len(emittedLast) :
                       emittedLast[i].partial = [largestContentfulPaint |-> last]
                 /\ monPhase = "mounted" =>
                       ApplyUpdates(metrics, updateQueue).snapshot.largestContentfulPaint = last
                 /\ lastEvt.list = <<[startTime |-> 1200], [startTime |-> 800],
                                     [startTime |-> 2000]>> => last = 2000

C10_Witness ==
    /\ lastEvt.kind = "largest-contentful-paint"
    /\ lastEvt.list = <<[startTime |-> 2000], [startTime |-> 800]>>
    /\ monPhase = "mounted"
    /\ "largestContentfulPaint" \in DOMAIN metrics
    /\ metrics.largestContentfulPaint = 2000
    /\ ApplyUpdates(metrics, updateQueue).snapshot.largestContentfulPaint = 800

(* C11: the FCP observer is single-fire: once the snapshot holds a         *)
(* firstContentfulPaint, a further paint list produces no update and the   *)
(* snapshot the next render shows keeps the first value.                   *)
C11_FcpSingleFire ==
    (/\ lastEvt.kind = "paint"
     /\ monPhase = "mounted"
     /\ "firstContentfulPaint" \in DOMAIN metrics) =>
        /\ emittedLast = <<>>
        /\ ApplyUpdates(metrics, updateQueue).snapshot.firstContentfulPaint
              = metrics.firstContentfulPaint

(* C12: when observe throws for one entry type, the observers of the other *)
(* supported types are still registered in every live session and every    *)
(* observer is released by the cleanup.                                    *)
C12_UnsupportedIsolated ==
    (supported # EntryTypes) =>
        \A r \in 1..Len(runs) :
            /\ ~runs[r].tornDown => runs[r].connected = supported
            /\ runs[r].tornDown => runs[r].connected = {}

(* C13: updateMetrics(partial) is a shallow merge: in the snapshot after   *)
(* each queued update, every field of the partial has the partial's value  *)
(* and every other field has the value it had before that update.          *)
C13_ShallowMerge ==
    [][(lastEvt'.kind = "render" /\ updateQueue # <<>>) =>
          /\ Len(notifiedLast') = Len(updateQueue)
          /\ \A k \in 1..Len(updateQueue) :
                LET before == IF k = 1 THEN metrics ELSE notifiedLast'[k - 1].snapshot
                    after == notifiedLast'[k].snapshot
                    partial == updateQueue[k].partial
                IN  /\ DOMAIN after = (DOMAIN before) \cup (DOMAIN partial)
                    /\ \A f \in DOMAIN partial : after[f] = partial[f]
                    /\ \A f \in (DOMAIN before) \ (DOMAIN partial) :
                          after[f] = before[f]]_vars

C13_Witness ==
    /\ lastEvt.kind = "render"
    /\ Len(notifiedLast) = 2
    /\ DOMAIN notifiedLast[1].snapshot = {"navigationTiming", "resourceTiming"}
    /\ notifiedLast[1].snapshot.navigationTiming = 1
    /\ Len(notifiedLast[1].snapshot.resourceTiming) = 3
    /\ DOMAIN notifiedLast[2].snapshot = {"navigationTiming", "resourceTiming"}
    /\ notifiedLast[2].snapshot.navigationTiming = 1
    /\ Len(notifiedLast[2].snapshot.resourceTiming) = 10
    /\ metrics = notifiedLast[2].snapshot

(* C14: the render that runs the queued updaters calls the subscriber once *)
(* per update, in order, each time with the callback of the update and the *)
(* snapshot made of the first k partials merged into the previous          *)
(* snapshot; the last of these is the snapshot committed, and no step      *)
(* other than this render notifies.                                        *)
RECURSIVE MergedPrefix(_, _, _)
MergedPrefix(base, queue, k) ==
    IF k = 0 THEN base
    ELSE Merge(MergedPrefix(base, queue, k - 1), queue[k].partial)

C14_NotifiedOncePerMerge ==
    [][/\ (lastEvt'.kind = "render" /\ updateQueue # <<>>) =>
            /\ Len(notifiedLast') = Len(updateQueue)
            /\ \A k \in 1..Len(updateQueue) :
                  /\ notifiedLast'[k].cb = updateQueue[k].cb
                  /\ notifiedLast'[k].snapshot = MergedPrefix(metrics, updateQueue, k)
            /\ metrics' = MergedPrefix(metrics, updateQueue, Len(updateQueue))
       /\ (lastEvt'.kind # "render") =>
            (notifiedLast' = <<>> /\ metrics' = metrics)]_vars

C14_Witness ==
    /\ lastEvt.kind = "render"
    /\ Len(runs) = 1
    /\ Len(notifiedLast) = 2
    /\ notifiedLast[1] = [cb |-> 1, src |-> "collect", late |-> FALSE,
                          snapshot |-> [navigationTiming |-> 1]]
    /\ notifiedLast[2] =
          [cb |-> 1, src |-> "collect", late |-> FALSE,
           snapshot |-> [navigationTiming |-> 1,
                         resourceTiming |-> <<[transferSize |-> 300000]>>
                                            \o <<[transferSize |-> 150000]>>
                                            \o <<[transferSize |-> 120000]>>]]
    /\ metrics = notifiedLast[2].snapshot

(* C15: each collection of resource timing emits one resourceTiming list   *)
(* derived from the current resource entries alone: at most 10 entries,    *)
(* all with transferSize > 100000, in non-increasing order, being the      *)
(* largest of the current entries above 100000; the snapshot the next      *)
(* render shows holds exactly this list in place of the previous one; and  *)
(* [50000,150000,300000,120000] gives [300000,150000,120000].              *)
Occurrences(entries, e) == Cardinality({i \in 1..Len(entries) : entries[i] = e})

C15_LargeResourceList ==
    (lastEvt.kind \in {"mount", "props", "timer"} /\ lastEvt.list # <<>>) =>
        LET current == lastEvt.list
            large == SelectSeq(current, LAMBDA e : e.transferSize > 100000)
            emitted == SelectSeq(emittedLast,
                          LAMBDA c : "resourceTiming" \in DOMAIN c.partial)
        IN  /\ Len(emitted) = 1
            /\ LET out == emitted[1].partial.resourceTiming
               IN  /\ Len(out) = (IF Len(large) < 10 THEN Len(large) ELSE 10)
                   /\ \A i \in 1..Len(out) : out[i].transferSize > 100000
                   /\ \A i \in 1..Len(out) : \A j \in i..Len(out) :
                         out[i].transferSize >= out[j].transferSize
                   /\ \A i \in 1..Len(out) :
                         Occurrences(out, out[i]) <= Occurrences(large, out[i])
                   /\ \A i \in 1..Len(large) :
                         Occurrences(out, large[i]) < Occurrences(large, large[i]) =>
                            \A j \in 1..Len(out) :
                               out[j].transferSize >= large[i].transferSize
                   /\ monPhase = "mounted" =>
                         ApplyUpdates(metrics, updateQueue).snapshot.resourceTiming = out
                   /\ current = <<[transferSize |-> 50000], [transferSize |-> 150000],
                                  [transferSize |-> 300000], [transferSize |-> 120000]>>
                         => out = <<[transferSize |-> 300000], [transferSize |-> 150000],
                                    [transferSize |-> 120000]>>

C15_Witness ==
    /\ lastEvt.kind = "timer"
    /\ Len(lastEvt.list) = 13
    /\ monPhase = "mounted"
    /\ "resourceTiming" \in DOMAIN metrics
    /\ metrics.resourceTiming = <<[transferSize |-> 300000], [transferSize |-> 150000],
                                  [transferSize |-> 120000]>>
    /\ Len(ApplyUpdates(metrics, updateQueue).snapshot.resourceTiming) = 10
    /\ ApplyUpdates(metrics, updateQueue).snapshot.resourceTiming[10].transferSize = 110000

(* C16: after the unmount of a component that uses useOptimizedState no    *)
(* debounce timer is left pending and no step writes the debounced value,  *)
(* however much time passes.                                               *)
C16_NoDebouncedWriteAfterUnmount ==
    [][~optMounted =>
          /\ timers = {}
          /\ timers' = {}
          /\ debouncedState' = debouncedState
          /\ writes' = writes
          /\ optLast' # "fire"]_vars

C16_Witness ==
    /\ ~optMounted
    /\ nUpdates >= 2
    /\ timeoutRef = nUpdates
    /\ now >= lastUpdateAt + DebounceMs
    /\ writes = 0
    /\ state # InitialState
    /\ debouncedState = InitialState

(* C17: after the unmount of a component that uses useBatchedState no      *)
(* flush timer is left pending, so no flush runs and nothing is committed  *)
(* after the unmount: the unmount is the last step of the hook.            *)
C17_NoFlushAfterUnmount ==
    ~batMounted => (batchTimers = {} /\ batLast = "unmount")

C17_Witness ==
    /\ ~batMounted
    /\ nBatched >= 2
    /\ batchTimeoutRef = nBatched
    /\ pendingUpdatesRef # EmptyMetrics
    /\ batchTimers = {}

(* C18: every first-input entry that has both processingStart and          *)
(* startTime (whatever their values, 0 included) makes each connected      *)
(* first-input observer emit one update firstInputDelay = processingStart  *)
(* - startTime, in the order of the entries; an entry that lacks one of    *)
(* the two fields emits nothing.                                           *)
RECURSIVE DelaysOfComplete(_)
DelaysOfComplete(list) ==
    IF list = <<>> THEN <<>>
    ELSE (IF {"processingStart", "startTime"} \subseteq DOMAIN Head(list)
          THEN <<[firstInputDelay |-> Head(list).processingStart - Head(list).startTime]>>
          ELSE <<>>) \o DelaysOfComplete(Tail(list))

C18_FidForCompleteEntries ==
    (lastEvt.kind = "first-input") =>
        \A r \in 1..Len(runs) :
            "first-input" \in runs[r].connected =>
                LET mine == SelectSeq(emittedLast, LAMBDA c : c.run = r)
                IN  [k \in 1..Len(mine) |-> mine[k].partial]
                       = DelaysOfComplete(lastEvt.list)

(* C19: the cumulativeLayoutShift of the snapshot never decreases, also    *)
(* across changes of the monitor's props.                                  *)
C19_ClsOnlyIncreases ==
    [][("cumulativeLayoutShift" \in DOMAIN metrics) =>
          /\ "cumulativeLayoutShift" \in DOMAIN metrics'
          /\ metrics'.cumulativeLayoutShift >= metrics.cumulativeLayoutShift]_vars

(* C20: a deferred collection (the load listener and its 1000 ms timer) of *)
(* an effect run that was torn down before never updates the snapshot and  *)
(* never notifies the subscriber: no render merges an update made by such  *)
(* a collection.                                                           *)
C20_NoCollectionAfterTeardown ==
    \A i \in 1..Len(notifiedLast) :
        ~(notifiedLast[i].late /\ notifiedLast[i].src = "collect")

(* C21: an entry list handled by the FCP, LCP, FID or CLS observer makes   *)
(* only updates of that observer's own field, each with a value derived    *)
(* from entries of that kind, and the snapshot of the next render differs  *)
(* from the one before in no other field (navigationTiming and             *)
(* resourceTiming included).                                               *)
FieldOf(ty) ==
    CASE ty = "paint" -> "firstContentfulPaint"
      [] ty = "largest-contentful-paint" -> "largestContentfulPaint"
      [] ty = "first-input" -> "firstInputDelay"
      [] ty = "layout-shift" -> "cumulativeLayoutShift"

DerivedValues(ty, list, r) ==
    CASE ty = "paint" ->
           {list[i].startTime :
               i \in {j \in 1..Len(list) : list[j].name = "first-contentful-paint"}}
      [] ty = "largest-contentful-paint" ->
           {list[i].startTime : i \in 1..Len(list)}
      [] ty = "first-input" ->
           {list[i].processingStart - list[i].startTime :
               i \in {j \in 1..Len(list) :
                         {"processingStart", "startTime"} \subseteq DOMAIN list[j]}}
      [] ty = "layout-shift" ->
           {SumValues(WithoutRecentInput(SubSeq(runs[r].shifts, 1, k))) :
               k \in (Len(runs[r].shifts) - Len(list) + 1)..Len(runs[r].shifts)}

C21_NoCrossFieldWrites ==
    (lastEvt.kind \in EntryTypes) =>
        LET own == FieldOf(lastEvt.kind)
        IN  /\ \A i \in 1..Len(emittedLast) :
                  /\ emittedLast[i].src = lastEvt.kind
                  /\ DOMAIN emittedLast[i].partial = {own}
                  /\ emittedLast[i].partial[own] \in
                        DerivedValues(lastEvt.kind, lastEvt.list, emittedLast[i].run)
            /\ monPhase = "mounted" =>
                  LET after == ApplyUpdates(metrics, updateQueue).snapshot
                  IN  /\ (DOMAIN after) \ {own} = (DOMAIN metrics) \ {own}
                      /\ \A f \in (DOMAIN metrics) \ {own} : after[f] = metrics[f]

C21_Witness ==
    /\ lastEvt.kind = "largest-contentful-paint"
    /\ monPhase = "mounted"
    /\ emittedLast # <<>>
    /\ DOMAIN metrics = {"navigationTiming", "firstContentfulPaint"}
    /\ DOMAIN ApplyUpdates(metrics, updateQueue).snapshot =
          {"navigationTiming", "firstContentfulPaint", "largestContentfulPaint"}

(* C22: each hook has at most one timer outstanding; an update leaves      *)
(* exactly one timer, the one it set (for the debounce with a full window  *)
(* ahead, for the batch with the fields accumulated so far kept); the fire *)
(* or flush leaves none; a burst makes one write of the debounced value;   *)
(* and the render that commits a flushed burst whose fields are not yet    *)
(* in the committed state changes the committed state.                     *)
C22_OneTimerOneChange ==
    [][/\ Cardinality(timers') <= 1
       /\ Cardinality(batchTimers') <= 1
       /\ (nUpdates' = nUpdates + 1) =>
             timers' = {[id |-> timeoutRef', at |-> now + DebounceMs,
                         value |-> stateQueue'[Len(stateQueue')], state |-> state]}
       /\ (optLast' = "fire" /\ writes' # writes) =>
             (timers' = {} /\ writes' = 1)
       /\ (nBatched' = nBatched + 1) =>
             /\ batchTimers' = {[id |-> batchTimeoutRef']}
             /\ \A f \in DOMAIN pendingUpdatesRef : f \in DOMAIN pendingUpdatesRef'
       /\ (batLast' = "flush") => batchTimers' = {}
       /\ (/\ batLast' = "render"
           /\ batchTimers = {}
           /\ pendingUpdatesRef = EmptyMetrics
           /\ \E f \in DOMAIN submitted :
                 f \notin DOMAIN batchState \/ batchState[f] # submitted[f]) =>
             batchState' # batchState]_vars

GoodFcpTarget == 1800
GoodLcpTarget == 2500
GoodFidTarget == 100
GoodClsTarget == 100

WithinGoodTargets(m) ==
    /\ "firstContentfulPaint" \in DOMAIN m => m.firstContentfulPaint < GoodFcpTarget
    /\ "largestContentfulPaint" \in DOMAIN m => m.largestContentfulPaint < GoodLcpTarget
    /\ "firstInputDelay" \in DOMAIN m => m.firstInputDelay < GoodFidTarget
    /\ "cumulativeLayoutShift" \in DOMAIN m => m.cumulativeLayoutShift < GoodClsTarget

C24_GoodTargetsScore100 ==
    WithinGoodTargets(metrics) =>
        (shownScore = 100 /\ calculatePerformanceScore(metrics) = 100)

(* C25: at any time at most one observer per entry type is connected for   *)
(* the monitor (the observers of an earlier effect run are released when   *)
(* the effect runs again), and the updates one delivered entry list        *)
(* produces all come from one observer.  Stated for the environment in     *)
(* which all four observe calls succeed.                                   *)
C25_OneObserverPerKind ==
    (supported = EntryTypes) =>
        /\ \A ty \in EntryTypes :
              Cardinality({r \in 1..Len(runs) : ty \in runs[r].connected}) <= 1
        /\ (lastEvt.kind \in EntryTypes) =>
              Cardinality({emittedLast[i].run : i \in 1..Len(emittedLast)}) <= 1

(* C28: for itemHeight > 0 and scrollTop, containerHeight, overscan >= 0   *)
(* the hook returns visibleStartIndex >= 0, visibleEndIndex <=             *)
(* items.length - 1, visibleItems = items[visibleStartIndex ..             *)
(* visibleEndIndex] (empty when start > end), offsetY = visibleStartIndex  *)
(* * itemHeight, and every item whose extent [i*itemHeight,                *)
(* (i+1)*itemHeight) overlaps [scrollTop, scrollTop + containerHeight] has *)
(* its index in [visibleStartIndex, visibleEndIndex].                      *)
C28_WindowCoversViewport ==
    (virtPhase = "mounted") =>
        LET items == virtProps.items
            h == virtProps.itemHeight
            first == virtView.visibleStartIndex
            last == virtView.visibleEndIndex
        IN  /\ first >= 0
            /\ last <= Len(items) - 1
            /\ virtView.visibleItems =
                  (IF first > last THEN <<>>
                   ELSE [k \in 1..(last - first + 1) |-> items[first + k]])
            /\ virtView.offsetY = first * h
            /\ \A i \in 0..(Len(items) - 1) :
                  (/\ i * h <= scrollTop + virtProps.containerHeight
                   /\ (i + 1) * h > scrollTop) =>
                      (first <= i /\ i <= last)

C28_Witness ==
    /\ virtPhase = "mounted"
    /\ Len(virtProps.items) = 4
    /\ virtProps.itemHeight = 2
    /\ virtProps.containerHeight = 1
    /\ scrollTop = 3
    /\ virtView.visibleStartIndex = 1
    /\ virtView.visibleEndIndex = 2
    /\ virtView.visibleItems = <<11, 12>>
    /\ virtView.offsetY = 2

(* C26: a load error while a fallbackSrc other than the current source is  *)
(* given switches to fallbackSrc, goes back to loading and does not call   *)
(* onError; a load error otherwise calls onError and ends with isLoading   *)
(* false, hasError true and the source kept; the fallback is taken at most *)
(* once per src, and once hasError is set the source changes only when the *)
(* src prop does.                                                          *)
C26_FallbackAtMostOnce ==
    [][/\ (imgLast'.kind = "error") =>
             IF imgProps.fallbackSrc # "undefined" /\ currentSrc # imgProps.fallbackSrc
             THEN /\ currentSrc' = imgProps.fallbackSrc
                  /\ isLoading'
                  /\ ~hasError'
                  /\ "onError" \notin imgCalls'
                  /\ elt' = [src |-> imgProps.fallbackSrc, status |-> "loading"]
             ELSE /\ "onError" \in imgCalls'
                  /\ ~isLoading'
                  /\ hasError'
                  /\ currentSrc' = currentSrc
       /\ switches' <= 1
       /\ (hasError /\ imgLast'.kind # "src") =>
             /\ imgLast'.kind # "error"
             /\ currentSrc' = currentSrc
             /\ hasError'
             /\ ~isLoading']_vars

C26_Witness ==
    /\ imgLast.kind = "error"
    /\ nSrcChanges >= 1
    /\ imgProps.src = "b"
    /\ imgProps.fallbackSrc = "f"
    /\ currentSrc = "f"
    /\ switches = 1
    /\ hasError
    /\ ~isLoading
    /\ imgCalls = {"onError"}

(* C27: isVisible and hasLoaded are equal in every state; a callback of    *)
(* the observer whose entry is intersecting sets both; neither goes back   *)
(* to false, whatever callbacks and threshold changes follow; and with     *)
(* enableLazyLoad the <Image> element is rendered exactly when isVisible   *)
(* is set, so once rendered it stays rendered until the unmount.  The      *)
(* entry of a callback is the one the hook destructures, the first of the  *)
(* list delivered.                                                         *)
C27_LazyLoadLatch ==
    [][/\ isVisible' = hasLoaded'
       /\ isVisible => isVisible'
       /\ hasLoaded => hasLoaded'
       /\ (imgLast'.kind = "intersect" /\ imgLast'.entries[1]) =>
             (isVisible' /\ hasLoaded')
       /\ (~isVisible /\ isVisible') =>
             (imgLast'.kind = "intersect" /\ imgLast'.entries[1])
       /\ (imgPhase' = "mounted" /\ imgProps'.enableLazyLoad) =>
             ((elt'.src # "none") <=> isVisible')]_vars

C27_Witness ==
    /\ imgPhase = "mounted"
    /\ imgProps.enableLazyLoad
    /\ imgProps.lazyLoadThreshold = 5
    /\ imgLast = [kind |-> "intersect", entries |-> <<FALSE>>]
    /\ nIntersections = 2
    /\ isVisible
    /\ hasLoaded
    /\ elt.status = "loaded"

(* C29: isHighQualityLoaded is true only if the image of the current src   *)
(* has completed loading, also after the src prop has changed.             *)
C29_HighQualityOnlyWhenLoaded ==
    (imgPhase = "mounted" /\ isHighQualityLoaded) =>
        /\ currentSrc = imgProps.src
        /\ elt = [src |-> imgProps.src, status |-> "loaded"]
        /\ ~isLoading
====
